---- MODULE Spec2Model ----
(***************************************************************************)
(* Model of backend/main.py: the PII redaction pipeline, the participant   *)
(* name extractor, the fuzzy matching and criteria scoring engine, and the *)
(* /upload handler.  Text is a sequence of one-character strings.          *)
(***************************************************************************)
EXTENDS Integers, Sequences, FiniteSets, TLC

VARIABLES
    number,        \* luhn_check: the argument
    luhn_pc,       \* "call" before the call, "ret" after it
    luhn_result    \* the value returned

luhnVars == <<number, luhn_pc, luhn_result>>

VARIABLES
    up_orig_ext,   \* /upload: per request, the extension of file.filename
    up_pc,         \* per request: "start", "reading", "awaiting_llm", "done"
    up_files,      \* the file system: path -> 0 (absent) or the id of the bytes held
    up_transcribed,\* per request: the bytes WHISPER_MODEL.transcribe read (0: none yet)
    up_response    \* per request: the kind of response returned

uploadVars == <<up_orig_ext, up_pc, up_files, up_transcribed, up_response>>

VARIABLES
    san_input,         \* sanitize_transcript: the raw transcript
    san_raw,           \* the argument of the call in progress
    san_t,             \* the local t
    san_placeholders,  \* the local placeholders, as <<key, value>> in insertion order
    san_pc,            \* the stage the call is about to run
    san_run,           \* 1: the call on the raw transcript, 2: the call on its result
    san_first          \* the result of the first call

sanVars == <<san_input, san_raw, san_t, san_placeholders, san_pc, san_run, san_first>>

VARIABLES
    np_raw_text,       \* extract_participant_names: the raw transcript
    np_pc,             \* the statement the call is about to run
    np_items,          \* the local items: <<pos, cue, name>> in document order
    np_agent_name,     \* the local agent_name (None or a name)
    np_customer_name,  \* the local customer_name
    np_result          \* the value returned

npVars == <<np_raw_text, np_pc, np_items, np_agent_name, np_customer_name, np_result>>

VARIABLES
    fuzz_partial,      \* rapidfuzz: phrase -> fuzz.partial_ratio against the haystack, in tenths
    fuzz_token_set     \* rapidfuzz: phrase -> fuzz.token_set_ratio against the haystack, in tenths

fuzzVars == <<fuzz_partial, fuzz_token_set>>

VARIABLES
    fz_phrases,        \* _best_fuzzy_match: the argument phrases
    fz_haystack,       \* the argument haystack_lower
    fz_floor,          \* the argument floor
    fz_pc,             \* "call" before the call, "ret" after it
    fz_result          \* the tuple returned

fzVars == <<fz_phrases, fz_haystack, fz_floor, fz_pc, fz_result>>

VARIABLES
    sc_criteria,       \* score_with_breakdown: the items of criteria["criteria"]
    sc_has_list,       \* whether the criteria dict has the key "criteria"
    sc_transcript,     \* the argument transcript
    sc_pc,             \* "loop", "totals", "returned" or "raised"
    sc_i,              \* the number of items the loop has processed
    sc_total_points,
    sc_earned_points,
    sc_breakdown,
    sc_score_percent,  \* in hundredths of a percent
    sc_totals

scVars == <<sc_criteria, sc_has_list, sc_transcript, sc_pc, sc_i, sc_total_points,
            sc_earned_points, sc_breakdown, sc_score_percent, sc_totals>>

vars == <<luhnVars, uploadVars, sanVars, npVars, fuzzVars, fzVars, scVars>>

(***************************************************************************)
(* Characters and the regular-expression primitives of Python's re that    *)
(* the patterns of main.py use.                                            *)
(***************************************************************************)
DigitSeq == <<"0", "1", "2", "3", "4", "5", "6", "7", "8", "9">>

LowerSeq == <<"a", "b", "c", "d", "e", "f", "g", "h", "i", "j", "k", "l", "m",
              "n", "o", "p", "q", "r", "s", "t", "u", "v", "w", "x", "y", "z">>

UpperSeq == <<"A", "B", "C", "D", "E", "F", "G", "H", "I", "J", "K", "L", "M",
              "N", "O", "P", "Q", "R", "S", "T", "U", "V", "W", "X", "Y", "Z">>

Range(s) == {s[i] : i \in 1..Len(s)}

DigitSet == Range(DigitSeq)

LowerSet == Range(LowerSeq)

UpperSet == Range(UpperSeq)

\* str.isdigit and \d
IsDigit(c) == c \in DigitSet

DigitVal(c) == (CHOOSE i \in 1..Len(DigitSeq) : DigitSeq[i] = c) - 1

IsUpper(c) == c \in UpperSet

IsLower(c) == c \in LowerSet

\* [A-Za-z], and [A-Z] or [a-z] under (?i)
IsAlpha(c) == IsUpper(c) \/ IsLower(c)

\* \w
IsWord(c) == IsAlpha(c) \/ IsDigit(c) \/ c = "_"

\* \s, and the characters str.strip and str.split take for white space
IsSpace(c) == c \in {" ", "\t", "\n", "\r"}

\* str.lower, one character
LowerChar(c) ==
    IF IsUpper(c) THEN LowerSeq[CHOOSE i \in 1..Len(UpperSeq) : UpperSeq[i] = c]
    ELSE c

\* str.upper, one character
UpperChar(c) ==
    IF IsLower(c) THEN UpperSeq[CHOOSE i \in 1..Len(LowerSeq) : LowerSeq[i] = c]
    ELSE c

\* str.lower
Lower(s) == [i \in 1..Len(s) |-> LowerChar(s[i])]

Reverse(s) == [i \in 1..Len(s) |-> s[Len(s) + 1 - i]]

Min(S) == CHOOSE x \in S : \A y \in S : x <= y

Max(S) == CHOOSE x \in S : \A y \in S : x >= y

\* The character at position i, "" outside the text (in no class).
At(t, i) == IF i >= 1 /\ i <= Len(t) THEN t[i] ELSE ""

\* \b between positions i-1 and i
Boundary(t, i) == IsWord(At(t, i - 1)) # IsWord(At(t, i))

\* The last position of the longest run of characters of a class that
\* starts at i (i - 1 when t[i] is not of the class): a greedy C*.
RunEnd(t, i, C(_)) ==
    LET stops == {j \in i..Len(t) : ~C(t[j])}
    IN  IF i > Len(t) THEN i - 1
        ELSE IF stops = {} THEN Len(t) ELSE Min(stops) - 1

\* Whether text p stands in t at position i.
StandsAt(t, i, p) ==
    /\ i >= 1
    /\ i + Len(p) - 1 <= Len(t)
    /\ \A k \in 1..Len(p) : t[i + k - 1] = p[k]

\* Whether lower-case text p stands in t.lower() at position i.
StandsAtLower(t, i, p) ==
    /\ i >= 1
    /\ i + Len(p) - 1 <= Len(t)
    /\ \A k \in 1..Len(p) : LowerChar(t[i + k - 1]) = p[k]

\* x in t, for strings
Contains(t, p) == \E i \in 1..(Len(t) - Len(p) + 1) : StandsAt(t, i, p)

\* The matches pattern.sub and pattern.finditer visit: leftmost first, not
\* overlapping.  ends[i] is the last position of the match that starts at
\* i, 0 when the pattern does not match there.
RECURSIVE Scan(_, _)
Scan(ends, from) ==
    LET starts == {i \in from..Len(ends) : ends[i] # 0}
    IN  IF starts = {} THEN <<>>
        ELSE LET i == Min(starts)
             IN  <<(<<i, ends[i]>>)>> \o Scan(ends, ends[i] + 1)

\* The text with match ms[k] replaced by repl[k], for every k from k on;
\* pos is the first position not yet copied.
RECURSIVE Splice(_, _, _, _, _)
Splice(t, ms, repl, k, pos) ==
    IF k > Len(ms) THEN SubSeq(t, pos, Len(t))
    ELSE SubSeq(t, pos, ms[k][1] - 1) \o repl[k]
         \o Splice(t, ms, repl, k + 1, ms[k][2] + 1)

\* str(n) for n >= 0
RECURSIVE Decimal(_)
Decimal(n) ==
    IF n < 10 THEN <<DigitSeq[n + 1]>>
    ELSE Decimal(n \div 10) \o <<DigitSeq[(n % 10) + 1]>>

\* str.strip
Strip(s) ==
    LET keep == {i \in 1..Len(s) : ~IsSpace(s[i])}
    IN  IF keep = {} THEN <<>> ELSE SubSeq(s, Min(keep), Max(keep))

\* len(s.split()): the number of maximal runs of characters that are not
\* white space
TokenCount(s) ==
    Cardinality({i \in 1..Len(s) : ~IsSpace(s[i]) /\ (i = 1 \/ IsSpace(s[i - 1]))})

(***************************************************************************)
(* luhn_check                                                              *)
(***************************************************************************)
CardMinDigits == 13

CardMaxDigits == 19

\* Bug variant: the doubling starts at the rightmost digit itself.
IsDoubledIndexEven(i) == i % 2 = 0

\* `if i % 2:` over enumerate(reversed(digits)), i counted from 0
IsDoubledIndex(i) == i % 2 # 0

LuhnDouble(d) == IF d * 2 > 9 THEN d * 2 - 9 ELSE d * 2

RECURSIVE LuhnLoop(_, _, _)
LuhnLoop(rev, i, checksum) ==
    IF i >= Len(rev) THEN checksum
    ELSE LET d == DigitVal(rev[i + 1])
         IN  LuhnLoop(rev, i + 1,
                      checksum + (IF IsDoubledIndex(i) THEN LuhnDouble(d) ELSE d))

luhn_check(num) ==
    LET digits == SelectSeq(num, IsDigit)
    IN  IF Len(digits) < CardMinDigits \/ Len(digits) > CardMaxDigits
        THEN FALSE
        ELSE LuhnLoop(Reverse(digits), 0, 0) % 10 = 0

(***************************************************************************)
(* Inputs of luhn_check: digit strings d_i = (a + b*i) mod 10 closed by a  *)
(* free last digit, bare or grouped in fours by a separator.               *)
(***************************************************************************)
LuhnMinLen == 11

LuhnMaxLen == 21

LuhnStep == 3

LuhnSeparators == {"", " ", "-"}

RECURSIVE Grouped(_, _, _)
Grouped(ds, sep, i) ==
    IF i > Len(ds) THEN <<>>
    ELSE (IF sep # "" /\ i > 1 /\ i % 4 = 1 THEN <<sep>> ELSE <<>>)
         \o <<ds[i]>> \o Grouped(ds, sep, i + 1)

LuhnDigits(n, a, b, last) ==
    [i \in 1..n |-> IF i = n THEN DigitSeq[last + 1]
                    ELSE DigitSeq[((a + b * i) % 10) + 1]]

LuhnInputs ==
    { Grouped(LuhnDigits(n, a, b, last), sep, 1) :
        n \in LuhnMinLen..LuhnMaxLen, a \in {1, 4}, b \in 0..LuhnStep,
        last \in 0..9, sep \in LuhnSeparators }

LuhnIdle ==
    /\ number = <<>>
    /\ luhn_pc = "idle"
    /\ luhn_result = FALSE

LuhnInit ==
    /\ number \in LuhnInputs
    /\ luhn_pc = "call"
    /\ luhn_result = FALSE

notLuhn == <<uploadVars, sanVars, npVars, fuzzVars, fzVars, scVars>>

LuhnCall ==
    /\ luhn_pc = "call"
    /\ luhn_result' = luhn_check(number)
    /\ luhn_pc' = "ret"
    /\ UNCHANGED <<number, notLuhn>>

LuhnNext == LuhnCall

\* The digits of a string, in order, as numbers.
DigitsOf(num) ==
    LET ds == SelectSeq(num, IsDigit) IN [i \in 1..Len(ds) |-> DigitVal(ds[i])]

RECURSIVE SumOver(_, _)
SumOver(f, S) ==
    IF S = {} THEN 0
    ELSE LET x == CHOOSE y \in S : TRUE IN f[x] + SumOver(f, S \ {x})

\* The checksum as the spec words it: position k from the left stands
\* Len - k places from the rightmost digit; every second one is doubled.
LuhnTerm(ds, k) ==
    LET fromRight == Len(ds) - k
        d == ds[k]
    IN  IF fromRight % 2 = 1
        THEN (IF 2 * d > 9 THEN 2 * d - 9 ELSE 2 * d)
        ELSE d

LuhnChecksum(ds) == SumOver([k \in 1..Len(ds) |-> LuhnTerm(ds, k)], 1..Len(ds))

\* C9: luhn_check keeps only the decimal digits, returns false for fewer
\* than 13 or more than 19 of them, and otherwise returns true iff the
\* alternating-doubling sum taken from the rightmost digit is 0 mod 10.
C9_LuhnCheck ==
    luhn_pc = "ret" =>
        LET ds == DigitsOf(number)
        IN  luhn_result =
              (/\ Len(ds) >= 13
               /\ Len(ds) <= 19
               /\ LuhnChecksum(ds) % 10 = 0)

\* A separated Luhn-valid 16-digit number was accepted.
C9_Witness ==
    /\ luhn_pc = "ret"
    /\ luhn_result
    /\ Len(DigitsOf(number)) = 16
    /\ Len(number) > 16

(***************************************************************************)
(* The entity patterns.  Each XEnd(t, i) is the last position of the match *)
(* of pattern X that starts at position i of t, 0 when there is none.      *)
(***************************************************************************)
ItinMinDigits == 6

ItinMaxDigits == 12

\* ITINERARY_RE = \bH\d{6,12}\b
ItinEnd(t, i) ==
    IF At(t, i) = "H" /\ Boundary(t, i)
    THEN LET e == RunEnd(t, i + 1, IsDigit)
         IN  IF /\ e - i >= ItinMinDigits
                /\ e - i <= ItinMaxDigits
                /\ ~IsWord(At(t, e + 1))
             THEN e ELSE 0
    ELSE 0

\* ITINERARY_RE.search(s)
ItinSearch(s) == \E i \in 1..Len(s) : ItinEnd(s, i) # 0

\* (?i)\s+<word>\s+ for a two- or three-letter lower-case word
SpokenEnd(t, i, word) ==
    IF IsSpace(At(t, i))
    THEN LET e1 == RunEnd(t, i, IsSpace)
         IN  IF /\ StandsAtLower(t, e1 + 1, word)
                /\ IsSpace(At(t, e1 + Len(word) + 1))
             THEN RunEnd(t, e1 + Len(word) + 1, IsSpace)
             ELSE 0
    ELSE 0

\* (?i)\b([a-z])\s+(?=[a-z]\b)
SpelledEnd(t, i) ==
    IF IsAlpha(At(t, i)) /\ Boundary(t, i) /\ IsSpace(At(t, i + 1))
    THEN LET e == RunEnd(t, i + 1, IsSpace)
         IN  IF IsAlpha(At(t, e + 1)) /\ ~IsWord(At(t, e + 2)) THEN e ELSE 0
    ELSE 0

\* (?i)(@)\s+ and (?i)\.\s+ : a character followed by white space
FollowedBySpaceEnd(t, i, c) ==
    IF At(t, i) = c /\ IsSpace(At(t, i + 1)) THEN RunEnd(t, i + 1, IsSpace) ELSE 0

\* [A-Za-z0-9._%+-]
IsEmailLocal(c) == IsAlpha(c) \/ IsDigit(c) \/ c \in {".", "_", "%", "+", "-"}

\* [A-Za-z0-9.-]
IsEmailDomain(c) == IsAlpha(c) \/ IsDigit(c) \/ c \in {".", "-"}

\* EMAIL_RE = \b[A-Za-z0-9._%+-]+@[A-Za-z0-9.-]+\.[A-Za-z]{2,}\b  (re.I)
\* The local part is the whole run before the @; the greedy domain gives
\* back to the last dot that a top-level domain of two or more letters and
\* a word boundary follow.
EmailEnd(t, i) ==
    IF IsEmailLocal(At(t, i)) /\ Boundary(t, i)
    THEN LET le == RunEnd(t, i, IsEmailLocal)
             de == RunEnd(t, le + 2, IsEmailDomain)
             dots == {p \in (le + 3)..de :
                        /\ t[p] = "."
                        /\ RunEnd(t, p + 1, IsAlpha) - p >= 2
                        /\ ~IsWord(At(t, RunEnd(t, p + 1, IsAlpha) + 1))}
         IN  IF At(t, le + 1) = "@" /\ dots # {}
             THEN RunEnd(t, Max(dots) + 1, IsAlpha)
             ELSE 0
    ELSE 0

CardMinGroups == 13

CardMaxGroups == 19

\* The groups \d[ -]? that stand at p, at most n of them, each as
\* <<position of the digit, 1 if a separator follows it else 0>>.
RECURSIVE CardGroups(_, _, _)
CardGroups(t, p, n) ==
    IF n = 0 \/ ~IsDigit(At(t, p)) THEN <<>>
    ELSE LET s == IF At(t, p + 1) \in {" ", "-"} THEN 1 ELSE 0
         IN  <<(<<p, s>>)>> \o CardGroups(t, p + 1 + s, n - 1)

\* LONG_DIGIT_RE = (?<![A-Z])(?:\d[ -]?){13,19}(?!\w)
\* Greedy with backtracking: the most groups first, and the last group
\* with its separator before without it.
CardEnd(t, i) ==
    IF IsDigit(At(t, i)) /\ ~IsUpper(At(t, i - 1))
    THEN LET gs == CardGroups(t, i, CardMaxGroups)
             withSep(n) == gs[n][2] = 1 /\ ~IsWord(At(t, gs[n][1] + 2))
             bare(n) == ~IsWord(At(t, gs[n][1] + 1))
             ok == {n \in CardMinGroups..Len(gs) : withSep(n) \/ bare(n)}
         IN  IF ok = {} THEN 0
             ELSE LET n == Max(ok)
                  IN  IF withSep(n) THEN gs[n][1] + 1 ELSE gs[n][1]
    ELSE 0

\* [-.\s]
IsPhoneSep(c) == c \in {"-", "."} \/ IsSpace(c)

\* p advanced over one optional character
Opt(t, p, ok) == IF ok THEN p + 1 ELSE p

\* (?:\+?1[-.\s]?) at p: the position after it, 0 when it does not match
PhoneCountry(t, p) ==
    LET p1 == Opt(t, p, At(t, p) = "+")
    IN  IF At(t, p1) = "1" THEN Opt(t, p1 + 1, IsPhoneSep(At(t, p1 + 1))) ELSE 0

\* (?:\(?\d{3}\)?[-.\s]?) at p: the position after it, 0 when it does not match
PhoneGroup(t, p) ==
    LET q1 == Opt(t, p, At(t, p) = "(")
    IN  IF p # 0 /\ \A k \in 0..2 : IsDigit(At(t, q1 + k))
        THEN LET q2 == Opt(t, q1 + 3, At(t, q1 + 3) = ")")
             IN  Opt(t, q2, IsPhoneSep(At(t, q2)))
        ELSE 0

\* (?:...){2}\d{4}(?!\w) at p: the last position of the match, 0 when none
PhoneTail(t, p) ==
    LET q == PhoneGroup(t, PhoneGroup(t, p))
    IN  IF /\ p # 0
           /\ q # 0
           /\ \A k \in 0..3 : IsDigit(At(t, q + k))
           /\ ~IsWord(At(t, q + 4))
        THEN q + 3 ELSE 0

\* PHONE_RE = (?<!\w)(?:\+?1[-.\s]?)?(?:\(?\d{3}\)?[-.\s]?){2}\d{4}(?!\w)
\* The optional country code is tried first, then the match without it.
PhoneEnd(t, i) ==
    IF i <= Len(t) /\ ~IsWord(At(t, i - 1))
    THEN IF PhoneTail(t, PhoneCountry(t, i)) # 0
         THEN PhoneTail(t, PhoneCountry(t, i))
         ELSE PhoneTail(t, i)
    ELSE 0

Cues == << <<"m","y"," ","n","a","m","e"," ","i","s">>,
           <<"g","u","e","s","t"," ","n","a","m","e"," ","i","s">>,
           <<"t","h","i","s"," ","i","s">>,
           <<"i"," ","a","m">> >>

\* [A-Z][a-z]+ at p under (?i): the last position of the word, 0 when
\* fewer than two letters stand there
NameWordEnd(t, p) ==
    LET e == RunEnd(t, p, IsAlpha) IN IF e - p + 1 >= 2 THEN e ELSE 0

\* (?:\s+[A-Z][a-z]+) after position e: the last position of the word, or e
\* itself when the group does not match
NameMoreEnd(t, e) ==
    IF IsSpace(At(t, e + 1))
    THEN LET w == NameWordEnd(t, RunEnd(t, e + 1, IsSpace) + 1)
         IN  IF w # 0 THEN w ELSE e
    ELSE e

\* NAME_CUE_RE =
\*   (?i)\b(my name is|guest name is|this is|i am)\s+([A-Z][a-z]+(?:\s+[A-Z][a-z]+){0,2})
\* The match that starts at i, as [cue_end, name_start, name_end];
\* name_end = 0 when there is none.
NameCueMatch(t, i) ==
    LET hits == {c \in 1..Len(Cues) : StandsAtLower(t, i, Cues[c])}
        none == [cue_end |-> 0, name_start |-> 0, name_end |-> 0]
    IN  IF hits = {} \/ ~Boundary(t, i) THEN none
        ELSE LET ce == i + Len(Cues[Min(hits)]) - 1
                 ns == RunEnd(t, ce + 1, IsSpace) + 1
                 w1 == NameWordEnd(t, ns)
             IN  IF ~IsSpace(At(t, ce + 1)) \/ w1 = 0 THEN none
                 ELSE [cue_end |-> ce, name_start |-> ns,
                       name_end |-> NameMoreEnd(t, NameMoreEnd(t, w1))]

NameCueEnd(t, i) == NameCueMatch(t, i).name_end

(***************************************************************************)
(* The redaction stages                                                    *)
(***************************************************************************)
\* pattern.sub(repl, t): ends gives the matches, Repl(s, e) the text that
\* replaces the match from s to e.
Sub(t, ends, Repl(_, _)) ==
    LET ms == Scan(ends, 1)
    IN  Splice(t, ms, [k \in 1..Len(ms) |-> Repl(ms[k][1], ms[k][2])], 1, 1)

MarkEmail == <<"[", "E", "M", "A", "I", "L", "]">>

MarkCard == <<"[", "C", "A", "R", "D", "]">>

MarkPhone == <<"[", "P", "H", "O", "N", "E", "]">>

MarkName == <<" ", "[", "N", "A", "M", "E", "]">>

\* key = f"__ITIN__{len(placeholders)}__"
PlaceholderKey(n) ==
    <<"_", "_", "I", "T", "I", "N", "_", "_">> \o Decimal(n) \o <<"_", "_">>

\* The matches of ITINERARY_RE in t, as <<first, last>>.
ItinMatches(t) == Scan([i \in 1..Len(t) |-> ItinEnd(t, i)], 1)

\* placeholders after t = ITINERARY_RE.sub(protect_itin, t)
protect_placeholders(t) ==
    LET ms == ItinMatches(t)
    IN  [k \in 1..Len(ms) |-> <<PlaceholderKey(k - 1), SubSeq(t, ms[k][1], ms[k][2])>>]

\* t after t = ITINERARY_RE.sub(protect_itin, t)
protect_itin(t) ==
    LET ms == ItinMatches(t)
    IN  Splice(t, ms, [k \in 1..Len(ms) |-> PlaceholderKey(k - 1)], 1, 1)

normalize_spoken_email(text) ==
    LET at(s, e) == <<"@">>
        dot(s, e) == <<".">>
        t1 == Sub(text, [i \in 1..Len(text) |-> SpokenEnd(text, i, <<"a", "t">>)], at)
        t2 == Sub(t1, [i \in 1..Len(t1) |-> SpokenEnd(t1, i, <<"d", "o", "t">>)], dot)
        letter(s, e) == <<t2[s]>>
        t3 == Sub(t2, [i \in 1..Len(t2) |-> SpelledEnd(t2, i)], letter)
        t4 == Sub(t3, [i \in 1..Len(t3) |-> FollowedBySpaceEnd(t3, i, "@")], at)
    IN  Sub(t4, [i \in 1..Len(t4) |-> FollowedBySpaceEnd(t4, i, ".")], dot)

redact_emails(text) ==
    LET mark(s, e) == MarkEmail
    IN  Sub(text, [i \in 1..Len(text) |-> EmailEnd(text, i)], mark)

redact_cards(text) ==
    LET repl(s, e) ==
            LET m == SubSeq(text, s, e)
            IN  IF ItinSearch(m) THEN m
                ELSE IF luhn_check(SelectSeq(m, IsDigit)) THEN MarkCard
                ELSE m
    IN  Sub(text, [i \in 1..Len(text) |-> CardEnd(text, i)], repl)

redact_phones(text) ==
    LET mark(s, e) == MarkPhone
    IN  Sub(text, [i \in 1..Len(text) |-> PhoneEnd(text, i)], mark)

redact_names_after_cues(text) ==
    LET repl(s, e) == SubSeq(text, s, NameCueMatch(text, s).cue_end) \o MarkName
    IN  Sub(text, [i \in 1..Len(text) |-> NameCueEnd(text, i)], repl)

\* t.replace(k, v)
Replace(t, k, v) ==
    LET val(s, e) == v
    IN  Sub(t, [i \in 1..Len(t) |-> IF StandsAt(t, i, k) THEN i + Len(k) - 1 ELSE 0], val)

\* for k, v in placeholders.items(): t = t.replace(k, v)
RECURSIVE restore(_, _, _)
restore(t, placeholders, n) ==
    IF n > Len(placeholders) THEN t
    ELSE restore(Replace(t, placeholders[n][1], placeholders[n][2]), placeholders, n + 1)

(***************************************************************************)
(* sanitize_transcript, stage by stage, called on a raw transcript and     *)
(* then once more on its own result.                                       *)
(***************************************************************************)
Segments ==
    { <<"H", "1", "2", "3", "4", "5", "6", "7">>,
      <<" ", "a", "t", " ">>,
      <<" ", "d", "o", "t", " ">>,
      <<"g", "m", "a", "i", "l", ".", "c", "o", "m">>,
      <<"j", "o", "h", "n">>,
      <<" ">>,
      <<"@">>,
      <<"4", "1", "1", "1", " ", "1", "1", "1", "1", " ", "1", "1", "1", "1", " ",
        "1", "1", "1", "1">>,
      <<"(", "4", "1", "5", ")", " ", "5", "5", "5", "-", "2", "6", "7", "1">>,
      <<"m", "y", " ", "n", "a", "m", "e", " ", "i", "s", " ", "J", "o", "h", "n">>,
      <<" ", "a", " ", "t", " ">>,
      <<"_", "_", "I", "T", "I", "N", "_", "_", "0", "_", "_">> }

MaxSegments == 3

RECURSIVE Texts(_)
Texts(n) ==
    IF n = 0 THEN {<<>>}
    ELSE Texts(n - 1) \cup {t \o s : t \in Texts(n - 1), s \in Segments}

SanIdle ==
    /\ san_input = <<>>
    /\ san_raw = <<>>
    /\ san_t = <<>>
    /\ san_placeholders = <<>>
    /\ san_pc = "idle"
    /\ san_run = 0
    /\ san_first = <<>>

SanInit ==
    /\ san_input \in Texts(MaxSegments)
    /\ san_raw = san_input
    /\ san_t = <<>>
    /\ san_placeholders = <<>>
    /\ san_pc = "call"
    /\ san_run = 1
    /\ san_first = <<>>

notSan == <<luhnVars, uploadVars, npVars, fuzzVars, fzVars, scVars>>

\* if not raw: return raw
SanReturnEmpty ==
    /\ san_pc = "call"
    /\ san_raw = <<>>
    /\ san_t' = san_raw
    /\ san_pc' = "returned"
    /\ UNCHANGED <<san_input, san_raw, san_placeholders, san_run, san_first, notSan>>

\* t = raw; placeholders = {}
SanEnter ==
    /\ san_pc = "call"
    /\ san_raw # <<>>
    /\ san_t' = san_raw
    /\ san_placeholders' = <<>>
    /\ san_pc' = "protect"
    /\ UNCHANGED <<san_input, san_raw, san_run, san_first, notSan>>

SanProtect ==
    /\ san_pc = "protect"
    /\ san_placeholders' = protect_placeholders(san_t)
    /\ san_t' = protect_itin(san_t)
    /\ san_pc' = "normalize"
    /\ UNCHANGED <<san_input, san_raw, san_run, san_first, notSan>>

SanStage(pc, text, next) ==
    /\ san_pc = pc
    /\ san_t' = text
    /\ san_pc' = next
    /\ UNCHANGED <<san_input, san_raw, san_placeholders, san_run, san_first, notSan>>

SanNormalize == SanStage("normalize", normalize_spoken_email(san_t), "emails")

SanEmails == SanStage("emails", redact_emails(san_t), "cards")

SanCards == SanStage("cards", redact_cards(san_t), "phones")

SanPhones == SanStage("phones", redact_phones(san_t), "names")

SanNames == SanStage("names", redact_names_after_cues(san_t), "restore")

SanRestore == SanStage("restore", restore(san_t, san_placeholders, 1), "returned")

\* The caller applies sanitize_transcript to the masked transcript.
SanAgain ==
    /\ san_pc = "returned"
    /\ san_run = 1
    /\ san_first' = san_t
    /\ san_raw' = san_t
    /\ san_run' = 2
    /\ san_pc' = "call"
    /\ UNCHANGED <<san_input, san_t, san_placeholders, notSan>>

SanNext ==
    \/ SanReturnEmpty
    \/ SanEnter
    \/ SanProtect
    \/ SanNormalize
    \/ SanEmails
    \/ SanCards
    \/ SanPhones
    \/ SanNames
    \/ SanRestore
    \/ SanAgain

(***************************************************************************)
(* extract_participant_names                                               *)
(***************************************************************************)
\* Python's None, where a text may stand.
NoneVal == <<"None">>

\* s.split()
RECURSIVE SplitFrom(_, _)
SplitFrom(s, from) ==
    LET starts == {i \in from..Len(s) : ~IsSpace(s[i])}
    IN  IF starts = {} THEN <<>>
        ELSE LET b == Min(starts)
                 IsNotSpace(c) == ~IsSpace(c)
                 e == RunEnd(s, b, IsNotSpace)
             IN  <<SubSeq(s, b, e)>> \o SplitFrom(s, e + 1)

Split(s) == SplitFrom(s, 1)

\* " ".join(words)
RECURSIVE JoinSpace(_)
JoinSpace(words) ==
    IF Len(words) = 0 THEN <<>>
    ELSE IF Len(words) = 1 THEN words[1]
    ELSE words[1] \o <<" ">> \o JoinSpace(Tail(words))

RECURSIVE Concat(_)
Concat(words) ==
    IF Len(words) = 0 THEN <<>> ELSE words[1] \o Concat(Tail(words))

mask_name(name) ==
    LET parts == Split(name)
        masked(p) == IF Len(p) <= 1 THEN <<p[1], "*">>
                     ELSE <<p[1]>> \o [k \in 1..(Len(p) - 1) |-> "*"]
    IN  JoinSpace([k \in 1..Len(parts) |-> masked(parts[k])])

initials(name) ==
    LET parts == Split(name)
    IN  Concat([k \in 1..Len(parts) |-> <<UpperChar(parts[k][1]), ".">>])

\* pack(n); the record of two None stands for the None it returns
pack(n) ==
    IF n = NoneVal \/ n = <<>> THEN [masked |-> NoneVal, initials |-> NoneVal]
    ELSE [masked |-> mask_name(n), initials |-> initials(n)]

AgentWindow == 400

AgentCues == {Cues[1], Cues[3], Cues[4]}

GuestCue == Cues[2]

\* items = [(m.start(), m.group(1).lower(), m.group(2).strip()) for m in matches]
NameItems(raw_text) ==
    LET ms == Scan([i \in 1..Len(raw_text) |-> NameCueEnd(raw_text, i)], 1)
        item(s) == LET m == NameCueMatch(raw_text, s)
                   IN  [pos |-> s - 1,
                        cue |-> Lower(SubSeq(raw_text, s, m.cue_end)),
                        name |-> Strip(SubSeq(raw_text, m.name_start, m.name_end))]
    IN  [k \in 1..Len(ms) |-> item(ms[k][1])]

\* Bug variant: the window test is pos <= 400.
InAgentWindowInclusive(pos) == pos <= AgentWindow

\* pos < 400
InAgentWindow(pos) == pos < AgentWindow

\* The first for loop: the name of the first item with an agent cue inside
\* the window, or agent_name unchanged.
RECURSIVE AgentByCue(_, _, _)
AgentByCue(items, k, agent_name) ==
    IF k > Len(items) THEN agent_name
    ELSE IF /\ agent_name = NoneVal
            /\ items[k].cue \in AgentCues
            /\ InAgentWindow(items[k].pos)
         THEN items[k].name
         ELSE AgentByCue(items, k + 1, agent_name)

\* The second for loop.
RECURSIVE CustomerByCue(_, _, _)
CustomerByCue(items, k, customer_name) ==
    IF k > Len(items) THEN customer_name
    ELSE IF customer_name = NoneVal /\ items[k].cue = GuestCue
         THEN items[k].name
         ELSE CustomerByCue(items, k + 1, customer_name)

\* The third for loop, under `if customer_name is None`.
RECURSIVE CustomerDistinct(_, _, _)
CustomerDistinct(items, k, agent_name) ==
    IF k > Len(items) THEN NoneVal
    ELSE IF agent_name # NoneVal /\ agent_name # <<>> /\ items[k].name # agent_name
         THEN items[k].name
         ELSE CustomerDistinct(items, k + 1, agent_name)

\* Transcripts: an optional filler that puts the first cue, or the cue after
\* the 18 characters of the guest sentence, at position AgentWindow - 1 or
\* AgentWindow, then up to NpMaxSentences sentences.
NpSentences ==
    { <<"m","y"," ","n","a","m","e"," ","i","s"," ","A","l","."," ">>,
      <<"T","h","i","s"," ","i","s"," ","B","o","."," ">>,
      <<"g","u","e","s","t"," ","n","a","m","e"," ","i","s"," ","C","y","."," ">>,
      <<"i"," ","a","m"," ","A","l"," ","B","o","."," ">>,
      <<"t","h","i","s"," ","i","s"," ","A","l","."," ">>,
      <<"h","e","l","l","o","."," ">> }

NpMaxSentences == 3

RECURSIVE NpTexts(_)
NpTexts(n) ==
    IF n = 0 THEN {<<>>}
    ELSE NpTexts(n - 1) \cup {t \o s : t \in NpTexts(n - 1), s \in NpSentences}

Filler(n) == [i \in 1..n |-> IF i = n THEN " " ELSE "x"]

NpFillers ==
    {<<>>, Filler(AgentWindow - 1), Filler(AgentWindow),
     Filler(AgentWindow - 19), Filler(AgentWindow - 18)}

notNp == <<luhnVars, uploadVars, sanVars, fuzzVars, fzVars, scVars>>

NpIdle ==
    /\ np_raw_text = <<>>
    /\ np_pc = "idle"
    /\ np_items = <<>>
    /\ np_agent_name = NoneVal
    /\ np_customer_name = NoneVal
    /\ np_result = [agent |-> pack(NoneVal), customer |-> pack(NoneVal)]

NpInit ==
    /\ np_raw_text \in {f \o t : f \in NpFillers, t \in NpTexts(NpMaxSentences)}
    /\ np_pc = "call"
    /\ np_items = <<>>
    /\ np_agent_name = NoneVal
    /\ np_customer_name = NoneVal
    /\ np_result = [agent |-> pack(NoneVal), customer |-> pack(NoneVal)]

\* if not raw_text / if not matches: return {"agent": None, "customer": None}
NpNoMatch ==
    /\ np_pc = "call"
    /\ np_raw_text = <<>> \/ NameItems(np_raw_text) = <<>>
    /\ np_result' = [agent |-> pack(NoneVal), customer |-> pack(NoneVal)]
    /\ np_pc' = "returned"
    /\ UNCHANGED <<np_raw_text, np_items, np_agent_name, np_customer_name, notNp>>

NpFind ==
    /\ np_pc = "call"
    /\ np_raw_text # <<>> /\ NameItems(np_raw_text) # <<>>
    /\ np_items' = NameItems(np_raw_text)
    /\ np_agent_name' = NoneVal
    /\ np_customer_name' = NoneVal
    /\ np_pc' = "agent_cue"
    /\ UNCHANGED <<np_raw_text, np_result, notNp>>

NpAgentCue ==
    /\ np_pc = "agent_cue"
    /\ np_agent_name' = AgentByCue(np_items, 1, np_agent_name)
    /\ np_pc' = "customer_cue"
    /\ UNCHANGED <<np_raw_text, np_items, np_customer_name, np_result, notNp>>

NpCustomerCue ==
    /\ np_pc = "customer_cue"
    /\ np_customer_name' = CustomerByCue(np_items, 1, np_customer_name)
    /\ np_pc' = "customer_distinct"
    /\ UNCHANGED <<np_raw_text, np_items, np_agent_name, np_result, notNp>>

NpCustomerDistinct ==
    /\ np_pc = "customer_distinct"
    /\ np_customer_name' =
          IF np_customer_name = NoneVal
          THEN CustomerDistinct(np_items, 1, np_agent_name)
          ELSE np_customer_name
    /\ np_pc' = "agent_default"
    /\ UNCHANGED <<np_raw_text, np_items, np_agent_name, np_result, notNp>>

\* if agent_name is None and items: agent_name = items[0][2]
NpAgentDefault ==
    /\ np_pc = "agent_default"
    /\ np_agent_name' =
          IF np_agent_name = NoneVal /\ Len(np_items) > 0
          THEN np_items[1].name ELSE np_agent_name
    /\ np_pc' = "customer_default"
    /\ UNCHANGED <<np_raw_text, np_items, np_customer_name, np_result, notNp>>

\* if customer_name is None and len(items) >= 2: customer_name = items[1][2]
NpCustomerDefault ==
    /\ np_pc = "customer_default"
    /\ np_customer_name' =
          IF np_customer_name = NoneVal /\ Len(np_items) >= 2
          THEN np_items[2].name ELSE np_customer_name
    /\ np_pc' = "pack"
    /\ UNCHANGED <<np_raw_text, np_items, np_agent_name, np_result, notNp>>

NpPack ==
    /\ np_pc = "pack"
    /\ np_result' = [agent |-> pack(np_agent_name), customer |-> pack(np_customer_name)]
    /\ np_pc' = "returned"
    /\ UNCHANGED <<np_raw_text, np_items, np_agent_name, np_customer_name, notNp>>

NpNext ==
    \/ NpNoMatch
    \/ NpFind
    \/ NpAgentCue
    \/ NpCustomerCue
    \/ NpCustomerDistinct
    \/ NpAgentDefault
    \/ NpCustomerDefault
    \/ NpPack

(***************************************************************************)
(* _is_multiword_or_long and _best_fuzzy_match.  rapidfuzz is outside the  *)
(* repository: fuzz.partial_ratio and fuzz.token_set_ratio are the state   *)
(* functions fuzz_partial and fuzz_token_set, whose values (floats between *)
(* 0 and 100) are kept in tenths.                                          *)
(***************************************************************************)
LongTokenLen == 6

_is_multiword_or_long(s) ==
    IF s = <<>> THEN FALSE
    ELSE TokenCount(Strip(s)) >= 2 \/ Len(Strip(s)) >= LongTokenLen

MaxOf(a, b) == IF a >= b THEN a ELSE b

\* Bug variant: the floor is exclusive.
MeetsFloorStrict(best_score, floor) == best_score > floor * 10

\* best_score >= floor, best_score in tenths
MeetsFloor(best_score, floor) == best_score >= floor * 10

\* int(best_score), best_score in tenths
IntOf(score) == score \div 10

NoMatch == [matched_phrase |-> NoneVal, similarity |-> 0, mode |-> "none"]

\* The for loop from phrase k on, and the return that follows it; best is
\* (best_phrase, best_score, best_mode).
RECURSIVE FuzzyLoop(_, _, _, _, _)
FuzzyLoop(phrases, haystack_lower, floor, k, best) ==
    IF k > Len(phrases)
    THEN IF MeetsFloor(best.score, floor)
         THEN [matched_phrase |-> best.phrase, similarity |-> IntOf(best.score),
               mode |-> best.mode]
         ELSE NoMatch
    ELSE LET p == phrases[k]
             p_l == Strip(Lower(p))
         IN  IF p = <<>> THEN FuzzyLoop(phrases, haystack_lower, floor, k + 1, best)
             ELSE IF p_l # <<>> /\ Contains(haystack_lower, p_l)
             THEN [matched_phrase |-> p, similarity |-> 100, mode |-> "substring"]
             ELSE IF _is_multiword_or_long(p_l)
             THEN LET s == MaxOf(fuzz_partial[p_l], fuzz_token_set[p_l])
                  IN  FuzzyLoop(phrases, haystack_lower, floor, k + 1,
                                IF s > best.score
                                THEN [phrase |-> p, score |-> s, mode |-> "fuzzy"]
                                ELSE best)
             ELSE FuzzyLoop(phrases, haystack_lower, floor, k + 1, best)

_best_fuzzy_match(phrases, haystack_lower, floor) ==
    FuzzyLoop(phrases, haystack_lower, floor, 1,
              [phrase |-> NoneVal, score |-> 0, mode |-> "none"])

(***************************************************************************)
(* Phrases, haystacks and the scores rapidfuzz may give.                   *)
(***************************************************************************)
PhThankYou == <<"t","h","a","n","k"," ","y","o","u">>

PhRefund == <<"R","e","f","u","n","d">>

PhGoodBye == <<"g","o","o","d"," ","b","y","e">>

PhHi == <<"h","i">>

PhYou == <<" ","Y","o","u"," ">>

PhEmpty == <<>>

Phrases == {PhThankYou, PhRefund, PhGoodBye, PhHi, PhYou, PhEmpty}

HayCalling == <<"t","h","a","n","k"," ","y","o","u"," ","f","o","r"," ",
                "c","a","l","l","i","n","g">>

HayHi == <<"h","i"," ","t","h","a","n","k"," ","y","o","u">>

Haystacks == {HayCalling, HayHi, <<>>}

\* The phrases rapidfuzz can be asked about.
FuzzKeys == {Strip(Lower(p)) : p \in {q \in Phrases : _is_multiword_or_long(Strip(Lower(q)))}}

PartialValues == {0, 725}

TokenSetValues == {0, 715, 720}

\* rapidfuzz scores a phrase the haystack contains 100 and scores
\* everything 0 against an empty haystack; any other score is free.
FuzzInit(haystack_lower) ==
    LET free == {k \in FuzzKeys : haystack_lower # <<>> /\ ~Contains(haystack_lower, k)}
        fixed(k) == IF haystack_lower = <<>> THEN 0 ELSE 1000
    IN  \E ps \in [free -> PartialValues], ts \in [free -> TokenSetValues] :
           /\ fuzz_partial = [k \in FuzzKeys |-> IF k \in free THEN ps[k] ELSE fixed(k)]
           /\ fuzz_token_set = [k \in FuzzKeys |-> IF k \in free THEN ts[k] ELSE fixed(k)]

FuzzIdle ==
    /\ fuzz_partial = <<>>
    /\ fuzz_token_set = <<>>

MaxPhrases == 2

RECURSIVE PhraseLists(_)
PhraseLists(n) ==
    IF n = 0 THEN {<<>>}
    ELSE PhraseLists(n - 1) \cup {Append(l, p) : l \in PhraseLists(n - 1), p \in Phrases}

Floors == {0, 72, 100}

notFz == <<luhnVars, uploadVars, sanVars, npVars, scVars>>

FzIdle ==
    /\ fz_phrases = <<>>
    /\ fz_haystack = <<>>
    /\ fz_floor = 0
    /\ fz_pc = "idle"
    /\ fz_result = NoMatch

FzInit ==
    /\ fz_haystack \in Haystacks
    /\ FuzzInit(fz_haystack)
    /\ fz_phrases \in PhraseLists(MaxPhrases)
    /\ fz_floor \in Floors
    /\ fz_pc = "call"
    /\ fz_result = NoMatch

FzCall ==
    /\ fz_pc = "call"
    /\ fz_result' = _best_fuzzy_match(fz_phrases, fz_haystack, fz_floor)
    /\ fz_pc' = "ret"
    /\ UNCHANGED <<fz_phrases, fz_haystack, fz_floor, fuzzVars, notFz>>

FzNext == FzCall

(***************************************************************************)
(* score_with_breakdown.  An item of the rubric is a record; what the JSON *)
(* may hold in place of a well-formed field is told by the *_kind fields:  *)
(*   score_kind     "int", "absent" (no key) or "text" (a non-numeric      *)
(*                  string);                                               *)
(*   keywords_kind  "list", "absent" or "null";                            *)
(* and a keyword that is no string (a number) is NonString.                *)
(***************************************************************************)
NonString == <<"#5">>

ScoringFloor == 72

\* int(item.get("score", 0))
PointsOf(item) == IF item.score_kind = "int" THEN item.score ELSE 0

\* item.get("keywords", []) or []
KeywordsOf(item) == IF item.keywords_kind = "list" THEN item.keywords ELSE <<>>

\* Whether the body of the loop raises for this item: int() of a
\* non-numeric string (ValueError), or s.strip() on a keyword that is no
\* string (AttributeError).
ItemRaises(item) ==
    \/ item.score_kind = "text"
    \/ \E k \in 1..Len(KeywordsOf(item)) : KeywordsOf(item)[k] = NonString

IsExactOnly(k) == ~_is_multiword_or_long(k)

\* exact_only = [k for k in keywords if not _is_multiword_or_long(k)]
exact_only(item) == SelectSeq(KeywordsOf(item), IsExactOnly)

\* fuzzy_ok: the other keywords, then the guideline if any, then the
\* alternative phrases
fuzzy_ok(item) ==
    SelectSeq(KeywordsOf(item), _is_multiword_or_long)
    \o (IF item.guideline # <<>> THEN <<item.guideline>> ELSE <<>>)
    \o item.alternative_phrases

\* Bug variant: the loop has no break, so the last keyword found wins.
RECURSIVE ExactLoopNoBreak(_, _, _, _)
ExactLoopNoBreak(ks, t, k, found) ==
    IF k > Len(ks) THEN found
    ELSE LET k_l == Strip(Lower(ks[k]))
         IN  ExactLoopNoBreak(ks, t, k + 1,
                IF k_l # <<>> /\ Contains(t, k_l)
                THEN [matched_phrase |-> ks[k], similarity |-> 100, mode |-> "substring"]
                ELSE found)

\* for k in exact_only: ... break, from keyword k on; found is the match so
\* far (NoMatch)
RECURSIVE ExactLoop(_, _, _, _)
ExactLoop(ks, t, k, found) ==
    IF k > Len(ks) THEN found
    ELSE LET k_l == Strip(Lower(ks[k]))
         IN  IF k_l # <<>> /\ Contains(t, k_l)
             THEN [matched_phrase |-> ks[k], similarity |-> 100, mode |-> "substring"]
             ELSE ExactLoop(ks, t, k + 1, found)

\* The match of one item: the exact stage, then the fuzzy stage.
MatchItem(item, t) ==
    LET exact == ExactLoop(exact_only(item), t, 1, NoMatch)
        pool == fuzzy_ok(item)
    IN  IF exact.mode # "none" THEN exact
        ELSE IF pool # <<>>
        THEN LET r == _best_fuzzy_match(pool, t, ScoringFloor)
             IN  IF r.matched_phrase # NoneVal /\ r.matched_phrase # <<>>
                    /\ r.similarity >= ScoringFloor
                 THEN r ELSE NoMatch
        ELSE NoMatch

\* Bug variant: every criterion earns its points.
EarnedAlways(earned, points, passed) == earned + points

\* if passed: earned_points += points
Earned(earned, points, passed) == IF passed THEN earned + points ELSE earned

\* n / d rounded to the nearest integer, ties to even; d > 0
RoundDiv(n, d) ==
    LET f == n \div d
        r == n - f * d
    IN  IF 2 * r < d THEN f
        ELSE IF 2 * r > d THEN f + 1
        ELSE IF f % 2 = 0 THEN f ELSE f + 1

\* Bug variant: the percentage is cut, not rounded, to two decimals.
PercentCut(earned, total) ==
    IF total > 0 THEN (earned * 10000) \div total ELSE 0

\* round((earned_points / total_points) * 100, 2) if total_points > 0 else 0.0,
\* in hundredths
Percent(earned, total) ==
    IF total > 0 THEN RoundDiv(earned * 10000, total) ELSE 0

\* sum(1 for b in breakdown if b["passed"] = want)
CountPassed(breakdown, want) ==
    Cardinality({i \in 1..Len(breakdown) : breakdown[i].passed = want})

(***************************************************************************)
(* Rubrics: up to MaxCriteria items, well-formed and malformed.            *)
(***************************************************************************)
Item(id, kws, guideline, alt, score) ==
    [id |-> id, description |-> "criterion", guideline |-> guideline,
     keywords_kind |-> "list", keywords |-> kws, alternative_phrases |-> alt,
     score_kind |-> "int", score |-> score]

ItemHi == Item(1, <<PhHi>>, <<>>, <<>>, 50)

ItemRefund == Item(2, <<PhRefund, PhHi>>, <<>>, <<PhGoodBye>>, 50)

ItemYou == Item(3, <<PhYou, PhHi>>, PhThankYou, <<>>, 30)

ItemNegative == Item(4, <<PhEmpty>>, PhGoodBye, <<PhRefund>>, -20)

ItemAltOnly == Item(5, <<>>, <<>>, <<PhHi>>, 20)

\* {}: every field missing
ItemBare ==
    [id |-> 0, description |-> "", guideline |-> <<>>,
     keywords_kind |-> "absent", keywords |-> <<>>, alternative_phrases |-> <<>>,
     score_kind |-> "absent", score |-> 0]

\* "score": "abc"
ItemTextScore == [Item(7, <<PhHi>>, <<>>, <<>>, 0) EXCEPT !.score_kind = "text"]

\* "keywords": [5]
ItemNumberKeyword == Item(8, <<NonString>>, <<>>, <<>>, 50)

\* "keywords": null and no "score", with a guideline
ItemNoScore ==
    [Item(9, <<>>, PhThankYou, <<>>, 0) EXCEPT !.score_kind = "absent",
                                               !.keywords_kind = "null"]

Items == {ItemHi, ItemRefund, ItemYou, ItemNegative, ItemAltOnly, ItemBare,
          ItemTextScore, ItemNumberKeyword, ItemNoScore}

MaxCriteria == 2

RECURSIVE Rubrics(_)
Rubrics(n) ==
    IF n = 0 THEN {<<>>}
    ELSE Rubrics(n - 1) \cup {Append(r, c) : r \in Rubrics(n - 1), c \in Items}

Transcripts ==
    { <<"T","h","a","n","k"," ","y","o","u"," ","f","o","r"," ","c","a","l","l","i","n","g">>,
      <<"H","i"," ","t","h","a","n","k"," ","Y","O","U">>,
      <<>>,
      NoneVal }

\* t = (transcript or "").lower()
LowerTranscript(transcript) ==
    IF transcript = NoneVal \/ transcript = <<>> THEN <<>> ELSE Lower(transcript)

EmptyTotals == [earned_points |-> 0, total_points |-> 0, passed |-> 0, failed |-> 0]

notSc == <<luhnVars, uploadVars, sanVars, npVars, fzVars>>

ScIdle ==
    /\ sc_criteria = <<>>
    /\ sc_has_list = FALSE
    /\ sc_transcript = <<>>
    /\ sc_pc = "idle"
    /\ sc_i = 0
    /\ sc_total_points = 0
    /\ sc_earned_points = 0
    /\ sc_breakdown = <<>>
    /\ sc_score_percent = 0
    /\ sc_totals = EmptyTotals

ScInit ==
    /\ sc_transcript \in Transcripts
    /\ FuzzInit(LowerTranscript(sc_transcript))
    /\ sc_has_list \in BOOLEAN
    /\ sc_criteria \in (IF sc_has_list THEN Rubrics(MaxCriteria) ELSE {<<>>})
    /\ sc_pc = "loop"
    /\ sc_i = 0
    /\ sc_total_points = 0
    /\ sc_earned_points = 0
    /\ sc_breakdown = <<>>
    /\ sc_score_percent = 0
    /\ sc_totals = EmptyTotals

\* One pass of the for loop, for an item the body does not raise on.
ScItem ==
    /\ sc_pc = "loop"
    /\ sc_i < Len(sc_criteria)
    /\ LET item == sc_criteria[sc_i + 1]
           points == PointsOf(item)
           m == MatchItem(item, LowerTranscript(sc_transcript))
           passed == m.mode # "none"
       IN  /\ ~ItemRaises(item)
           /\ sc_total_points' = sc_total_points + points
           /\ sc_earned_points' = Earned(sc_earned_points, points, passed)
           /\ sc_breakdown' = Append(sc_breakdown,
                 [id |-> item.id, description |-> item.description,
                  guideline |-> item.guideline, points |-> points, passed |-> passed,
                  matched_phrase |-> m.matched_phrase, similarity |-> m.similarity,
                  mode |-> m.mode])
    /\ sc_i' = sc_i + 1
    /\ UNCHANGED <<sc_criteria, sc_has_list, sc_transcript, sc_pc, sc_score_percent,
                   sc_totals, fuzzVars, notSc>>

\* One pass of the for loop that raises: the exception leaves the function.
ScItemRaises ==
    /\ sc_pc = "loop"
    /\ sc_i < Len(sc_criteria)
    /\ ItemRaises(sc_criteria[sc_i + 1])
    /\ sc_pc' = "raised"
    /\ UNCHANGED <<sc_criteria, sc_has_list, sc_transcript, sc_i, sc_total_points,
                   sc_earned_points, sc_breakdown, sc_score_percent, sc_totals,
                   fuzzVars, notSc>>

\* After the loop: score_percent, totals, return.
ScReturn ==
    /\ sc_pc = "loop"
    /\ sc_i = Len(sc_criteria)
    /\ sc_score_percent' = Percent(sc_earned_points, sc_total_points)
    /\ sc_totals' = [earned_points |-> sc_earned_points,
                     total_points |-> sc_total_points,
                     passed |-> CountPassed(sc_breakdown, TRUE),
                     failed |-> CountPassed(sc_breakdown, FALSE)]
    /\ sc_pc' = "returned"
    /\ UNCHANGED <<sc_criteria, sc_has_list, sc_transcript, sc_i, sc_total_points,
                   sc_earned_points, sc_breakdown, fuzzVars, notSc>>

ScNext ==
    \/ ScItem
    \/ ScItemRaises
    \/ ScReturn

(***************************************************************************)
(* upload_audio: concurrent requests on one event loop.  A request yields  *)
(* only at `await file.read()` and at `await asyncio.wait_for(...)`; what  *)
(* lies between two awaits is one step.  The bytes request r uploads are   *)
(* named r.                                                                *)
(***************************************************************************)
NumRequests == 3

Requests == 1..NumRequests

allowed_exts == {".wav", ".mp3", ".m4a", ".ogg", ".flac", ".webm"}

\* Extensions the uploaded file names carry.
OrigExts == {".wav", ".mp3", ".txt", ""}

\* ext = orig_ext if orig_ext in allowed_exts else ".wav"; temp_audio{ext}
audio_path(orig_ext) ==
    IF orig_ext \in allowed_exts THEN orig_ext ELSE ".wav"

AudioPaths == {audio_path(e) : e \in OrigExts}

\* Bug variant: the finally block leaves the file in place.
FinallyKeep(files, path) == files

\* finally: if os.path.exists(audio_path): os.remove(audio_path)
FinallyRemove(files, path) ==
    IF files[path] # 0 THEN [files EXCEPT ![path] = 0] ELSE files

\* with open(audio_path, "wb") as buffer: buffer.write(content)
WriteAudio(files, path, content) == [files EXCEPT ![path] = content]

notUpload == <<luhnVars, sanVars, npVars, fuzzVars, fzVars, scVars>>

UploadIdle ==
    /\ up_orig_ext = <<>>
    /\ up_pc = <<>>
    /\ up_files = <<>>
    /\ up_transcribed = <<>>
    /\ up_response = <<>>

UploadInit ==
    /\ up_orig_ext \in [Requests -> OrigExts]
    /\ up_pc = [r \in Requests |-> "start"]
    /\ up_files = [p \in AudioPaths |-> 0]
    /\ up_transcribed = [r \in Requests |-> 0]
    /\ up_response = [r \in Requests |-> "none"]

\* The handler runs to `content = await file.read()` and is suspended there.
UploadBegin(r) ==
    /\ up_pc[r] = "start"
    /\ up_pc' = [up_pc EXCEPT ![r] = "reading"]
    /\ UNCHANGED <<up_orig_ext, up_files, up_transcribed, up_response, notUpload>>

\* file.read() raises: except, then finally.
UploadReadFails(r) ==
    /\ up_pc[r] = "reading"
    /\ up_files' = FinallyRemove(up_files, audio_path(up_orig_ext[r]))
    /\ up_response' = [up_response EXCEPT ![r] = "error"]
    /\ up_pc' = [up_pc EXCEPT ![r] = "done"]
    /\ UNCHANGED <<up_orig_ext, up_transcribed, notUpload>>

\* The body arrives; the file is written and transcribed; the transcription
\* raises: except, then finally.
UploadTranscribeFails(r) ==
    /\ up_pc[r] = "reading"
    /\ LET path == audio_path(up_orig_ext[r])
           written == WriteAudio(up_files, path, r)
       IN  /\ up_transcribed' = [up_transcribed EXCEPT ![r] = written[path]]
           /\ up_files' = FinallyRemove(written, path)
    /\ up_response' = [up_response EXCEPT ![r] = "error"]
    /\ up_pc' = [up_pc EXCEPT ![r] = "done"]
    /\ UNCHANGED <<up_orig_ext, notUpload>>

\* The body arrives; the file is written and transcribed; no speech: the
\* early return, then finally.
UploadNoSpeech(r) ==
    /\ up_pc[r] = "reading"
    /\ LET path == audio_path(up_orig_ext[r])
           written == WriteAudio(up_files, path, r)
       IN  /\ up_transcribed' = [up_transcribed EXCEPT ![r] = written[path]]
           /\ up_files' = FinallyRemove(written, path)
    /\ up_response' = [up_response EXCEPT ![r] = "empty"]
    /\ up_pc' = [up_pc EXCEPT ![r] = "done"]
    /\ UNCHANGED <<up_orig_ext, notUpload>>

\* The body arrives; the file is written and transcribed, the transcript is
\* masked and scored, and the handler is suspended at the language-model call.
UploadTranscribe(r) ==
    /\ up_pc[r] = "reading"
    /\ LET path == audio_path(up_orig_ext[r])
           written == WriteAudio(up_files, path, r)
       IN  /\ up_transcribed' = [up_transcribed EXCEPT ![r] = written[path]]
           /\ up_files' = written
    /\ up_pc' = [up_pc EXCEPT ![r] = "awaiting_llm"]
    /\ UNCHANGED <<up_orig_ext, up_response, notUpload>>

\* The language-model call returns, times out after 40 s, or raises; the
\* response is built, then finally.
UploadFinish(r, kind) ==
    /\ up_pc[r] = "awaiting_llm"
    /\ up_files' = FinallyRemove(up_files, audio_path(up_orig_ext[r]))
    /\ up_response' = [up_response EXCEPT ![r] = kind]
    /\ up_pc' = [up_pc EXCEPT ![r] = "done"]
    /\ UNCHANGED <<up_orig_ext, up_transcribed, notUpload>>

UploadLlmReturns(r) == UploadFinish(r, "ok")

UploadLlmTimeout(r) == UploadFinish(r, "timeout")

UploadLlmRaises(r) == UploadFinish(r, "error")

UploadNext ==
    \E r \in Requests :
          \/ UploadBegin(r)
          \/ UploadReadFails(r)
          \/ UploadTranscribeFails(r)
          \/ UploadNoSpeech(r)
          \/ UploadTranscribe(r)
          \/ UploadLlmReturns(r)
          \/ UploadLlmTimeout(r)
          \/ UploadLlmRaises(r)

\* C10: under any interleaving at the awaits, the file a request transcribes
\* holds the bytes that request uploaded, and once every request has
\* returned no temp_audio file remains.
C10_UploadIsolation ==
    /\ \A r \in Requests : up_transcribed[r] \in {0, r}
    /\ (\A r \in Requests : up_pc[r] = "done") =>
           \A p \in AudioPaths : up_files[p] = 0

\* One request is suspended at the language-model call while the path it
\* wrote holds the bytes of another request that transcribed them.
C10_Witness ==
    \E r1, r2 \in Requests :
        /\ r1 # r2
        /\ audio_path(up_orig_ext[r1]) = audio_path(up_orig_ext[r2])
        /\ up_pc[r1] = "awaiting_llm"
        /\ up_transcribed[r1] = r1
        /\ up_files[audio_path(up_orig_ext[r1])] = r2
        /\ up_transcribed[r2] = r2

(***************************************************************************)
(* Properties of sanitize_transcript                                       *)
(***************************************************************************)
\* The itinerary tokens of a text, in order.
ItinTokens(t) ==
    LET ms == ItinMatches(t) IN [k \in 1..Len(ms) |-> SubSeq(t, ms[k][1], ms[k][2])]

\* C4: every token H + 6 to 12 digits of the raw transcript is present,
\* unmodified, in the output of sanitize_transcript, whatever surrounds it,
\* and no placeholder inserted in step 1 appears in the output.
C4_ItineraryPreserved ==
    (san_pc = "returned" /\ san_run = 1) =>
        /\ \A k \in 1..Len(ItinTokens(san_input)) :
              Contains(san_t, ItinTokens(san_input)[k])
        /\ \A k \in 1..Len(san_placeholders) :
              ~Contains(san_t, san_placeholders[k][1])

\* C5: redaction is idempotent: sanitize_transcript applied to its own
\* result returns that result unchanged.
C5_Idempotent ==
    (san_pc = "returned" /\ san_run = 2) => san_t = san_first

(***************************************************************************)
(* Properties of extract_participant_names                                 *)
(***************************************************************************)
C8_AgentCue(items) ==
    LET hits == {k \in 1..Len(items) :
                   /\ items[k].cue \in { <<"m","y"," ","n","a","m","e"," ","i","s">>,
                                         <<"t","h","i","s"," ","i","s">>,
                                         <<"i"," ","a","m">> }
                   /\ items[k].pos < 400}
    IN  IF hits = {} THEN NoneVal ELSE items[Min(hits)].name

C8_Agent(items) ==
    IF C8_AgentCue(items) # NoneVal THEN C8_AgentCue(items)
    ELSE IF Len(items) >= 1 THEN items[1].name
    ELSE NoneVal

C8_Customer(items) ==
    LET guests == {k \in 1..Len(items) :
                     items[k].cue = <<"g","u","e","s","t"," ","n","a","m","e"," ","i","s">>}
        others == {k \in 1..Len(items) :
                     C8_AgentCue(items) # NoneVal /\ items[k].name # C8_AgentCue(items)}
    IN  IF guests # {} THEN items[Min(guests)].name
        ELSE IF others # {} THEN items[Min(others)].name
        ELSE IF Len(items) >= 2 THEN items[2].name
        ELSE NoneVal

C3_Substrings(phrases, haystack) ==
    {k \in 1..Len(phrases) :
        /\ phrases[k] # <<>>
        /\ Strip(Lower(phrases[k])) # <<>>
        /\ Contains(haystack, Strip(Lower(phrases[k])))}

C3_Scored(phrases) ==
    {k \in 1..Len(phrases) :
        LET p_l == Strip(Lower(phrases[k]))
        IN  TokenCount(p_l) >= 2 \/ Len(p_l) >= 6}

C3_Score(phrases, k) ==
    LET p_l == Strip(Lower(phrases[k]))
    IN  IF fuzz_partial[p_l] >= fuzz_token_set[p_l]
        THEN fuzz_partial[p_l] ELSE fuzz_token_set[p_l]

C3_Best(phrases) == Max({C3_Score(phrases, k) : k \in C3_Scored(phrases)})

C3_BestPhrase(phrases) ==
    phrases[Min({k \in C3_Scored(phrases) : C3_Score(phrases, k) = C3_Best(phrases)})]

\* C3 as stated: the first substring candidate wins with (p, 100,
\* "substring"); otherwise (best phrase, best score, "fuzzy") is returned
\* iff the best score is at least the floor, else (none, 0, "none").
C3_AsStated ==
    fz_pc = "ret" =>
        LET subs == C3_Substrings(fz_phrases, fz_haystack)
        IN  IF subs # {}
            THEN fz_result = [matched_phrase |-> fz_phrases[Min(subs)],
                              similarity |-> 100, mode |-> "substring"]
            ELSE IF /\ C3_Scored(fz_phrases) # {}
                    /\ C3_Best(fz_phrases) >= fz_floor * 10
            THEN /\ fz_result.matched_phrase = C3_BestPhrase(fz_phrases)
                 /\ fz_result.similarity * 10 = C3_Best(fz_phrases)
                 /\ fz_result.mode = "fuzzy"
            ELSE fz_result = NoMatch

\* C3 amended: as stated, but a fuzzy match needs a best score above 0 as
\* well, and the score returned is the best score cut to an integer.
C3_BestFuzzyMatch ==
    fz_pc = "ret" =>
        LET subs == C3_Substrings(fz_phrases, fz_haystack)
        IN  IF subs # {}
            THEN fz_result = [matched_phrase |-> fz_phrases[Min(subs)],
                              similarity |-> 100, mode |-> "substring"]
            ELSE IF /\ C3_Scored(fz_phrases) # {}
                    /\ C3_Best(fz_phrases) > 0
                    /\ C3_Best(fz_phrases) >= fz_floor * 10
            THEN /\ fz_result.matched_phrase = C3_BestPhrase(fz_phrases)
                 /\ fz_result.similarity = C3_Best(fz_phrases) \div 10
                 /\ fz_result.mode = "fuzzy"
            ELSE fz_result = NoMatch

\* A best score of exactly 72 against floor 72 is returned as a fuzzy match.
C3_Witness ==
    /\ fz_pc = "ret"
    /\ fz_floor = 72
    /\ C3_Substrings(fz_phrases, fz_haystack) = {}
    /\ C3_Scored(fz_phrases) # {}
    /\ C3_Best(fz_phrases) = 720
    /\ fz_result.mode = "fuzzy"
    /\ fz_result.similarity = 72

(***************************************************************************)
(* Properties of score_with_breakdown                                      *)
(***************************************************************************)
\* A keyword that is a single token shorter than 6 characters.
C1_ExactOnly(k) == TokenCount(k) <= 1 /\ Len(Strip(k)) < 6

\* The exact-only keywords of an item that occur in the transcript.
C1_ExactHits(item, t) ==
    {k \in 1..Len(KeywordsOf(item)) :
        LET kw == KeywordsOf(item)[k]
        IN  /\ C1_ExactOnly(kw)
            /\ Strip(Lower(kw)) # <<>>
            /\ Contains(t, Strip(Lower(kw)))}

C1_Pool(item) ==
    SelectSeq(KeywordsOf(item), LAMBDA k : ~C1_ExactOnly(k))
    \o (IF item.guideline # <<>> THEN <<item.guideline>> ELSE <<>>)
    \o item.alternative_phrases

\* C1: an exact-only keyword found in the transcript passes the criterion
\* with similarity 100, mode "substring" and the first such keyword;
\* otherwise it passes iff the pool is not empty and the fuzzy engine, with
\* floor 72, returns a match; in every other case the entry is
\* (false, none, 0, "none").
C1_CriterionOrder ==
    \A i \in 1..Len(sc_breakdown) :
        LET item == sc_criteria[i]
            e == sc_breakdown[i]
            t == LowerTranscript(sc_transcript)
            hits == C1_ExactHits(item, t)
        IN  IF hits # {}
            THEN /\ e.passed
                 /\ e.similarity = 100
                 /\ e.mode = "substring"
                 /\ e.matched_phrase = KeywordsOf(item)[Min(hits)]
            ELSE /\ e.passed <=>
                       /\ C1_Pool(item) # <<>>
                       /\ _best_fuzzy_match(C1_Pool(item), t, 72) # NoMatch
                 /\ ~e.passed =>
                       /\ e.matched_phrase = NoneVal
                       /\ e.similarity = 0
                       /\ e.mode = "none"

\* One criterion passed on the first of two exact-only keywords that both
\* occur, another one passed through the fuzzy stage.
C1_Witness ==
    /\ sc_pc = "returned"
    /\ \E i \in 1..Len(sc_breakdown) :
          /\ Cardinality(C1_ExactHits(sc_criteria[i], LowerTranscript(sc_transcript))) >= 2
          /\ sc_breakdown[i].mode = "substring"
    /\ \E i \in 1..Len(sc_breakdown) :
          /\ sc_breakdown[i].passed
          /\ sc_breakdown[i].mode = "fuzzy"

RECURSIVE C2_Sum(_, _)
C2_Sum(f, n) == IF n = 0 THEN 0 ELSE f[n] + C2_Sum(f, n - 1)

C2_Weights == [i \in 1..Len(sc_breakdown) |-> sc_breakdown[i].points]

C2_PassedWeights ==
    [i \in 1..Len(sc_breakdown) |->
        IF sc_breakdown[i].passed THEN sc_breakdown[i].points ELSE 0]

C2_Sums ==
    /\ Len(sc_breakdown) = Len(sc_criteria)
    /\ \A i \in 1..Len(sc_criteria) :
          /\ sc_breakdown[i].id = sc_criteria[i].id
          /\ sc_breakdown[i].points = PointsOf(sc_criteria[i])
    /\ sc_totals.total_points = C2_Sum(C2_Weights, Len(sc_breakdown))
    /\ sc_totals.earned_points = C2_Sum(C2_PassedWeights, Len(sc_breakdown))

C6_Malformed(item) ==
    \/ item.score_kind # "int"
    \/ item.keywords_kind # "list"
    \/ \E k \in 1..Len(item.keywords) : item.keywords[k] = NonString

\* C6: a malformed rubric entry never makes score_with_breakdown fail; it
\* contributes weight 0 and is reported with passed = false.
C6_FailSoft ==
    /\ sc_pc # "raised"
    /\ sc_pc = "returned" =>
          \A i \in 1..Len(sc_criteria) :
              C6_Malformed(sc_criteria[i]) =>
                  sc_breakdown[i].points = 0 /\ ~sc_breakdown[i].passed

\* C7: score_percent is exactly 0.0 whenever total_points is not greater
\* than 0, and otherwise earned_points / total_points * 100 rounded to two
\* decimals (the nearest hundredth).
C7_Percent ==
    sc_pc = "returned" =>
        IF sc_total_points > 0
        THEN LET d == sc_score_percent * sc_total_points - sc_earned_points * 10000
             IN  2 * d <= sc_total_points /\ 2 * d >= -sc_total_points
        ELSE sc_score_percent = 0

\* A rubric whose criteria weigh 0 in total, one of them passed.
C7_Witness ==
    /\ sc_pc = "returned"
    /\ sc_total_points = 0
    /\ sc_score_percent = 0
    /\ \E i \in 1..Len(sc_breakdown) : sc_breakdown[i].passed

(***************************************************************************)
(* Specifications: one per component, the other components idle.           *)
(***************************************************************************)
InitLuhn ==
    LuhnInit /\ UploadIdle /\ SanIdle /\ NpIdle /\ FuzzIdle /\ FzIdle /\ ScIdle

SpecLuhn == InitLuhn /\ [][LuhnNext]_vars

InitUpload ==
    UploadInit /\ LuhnIdle /\ SanIdle /\ NpIdle /\ FuzzIdle /\ FzIdle /\ ScIdle

SpecUpload == InitUpload /\ [][UploadNext]_vars

InitSanitize ==
    SanInit /\ LuhnIdle /\ UploadIdle /\ NpIdle /\ FuzzIdle /\ FzIdle /\ ScIdle

SpecSanitize == InitSanitize /\ [][SanNext]_vars

InitNames ==
    NpInit /\ LuhnIdle /\ UploadIdle /\ SanIdle /\ FuzzIdle /\ FzIdle /\ ScIdle

SpecNames == InitNames /\ [][NpNext]_vars

InitFuzzy ==
    FzInit /\ LuhnIdle /\ UploadIdle /\ SanIdle /\ NpIdle /\ ScIdle

SpecFuzzy == InitFuzzy /\ [][FzNext]_vars

Init ==
    ScInit /\ LuhnIdle /\ UploadIdle /\ SanIdle /\ NpIdle /\ FzIdle

Next == ScNext

Spec == Init /\ [][Next]_vars

====
